---- MODULE Spec2Model ----
(***************************************************************************)
(* compbench (SnellerInc/compbench, main.go): the windowed frame codec     *)
(* around the iguana block codec (iguanaCompress / iguanaDecompress) and   *)
(* the benchmark driver (main, benchmark, the compressors table with its   *)
(* avail / compress / decompress closures).                                *)
(*                                                                         *)
(* Two state machines share this module:                                   *)
(*   CodecSpec  the loops of iguanaCompress and iguanaDecompress, one      *)
(*              action per loop iteration, run on every small input and    *)
(*              on every truncation of the encoder's output;               *)
(*   Spec       main's loop over the compressors table and benchmark's     *)
(*              measurement loop against a clock that advances on its own  *)
(*              (FairSpec adds the fairness of the clock and of the        *)
(*              sequential program).                                       *)
(***************************************************************************)
EXTENDS Integers, Sequences, FiniteSets, TLC

(***************************************************************************)
(* Bounds of the model.                                                    *)
(***************************************************************************)
\* The window of iguanaCompress (const iguanaWindowSize = 256 * 1024, bytes),
\* scaled down so that inputs of a few bytes span several windows.
iguanaWindowSize == 2

\* Longest input handed to iguanaCompress in CodecSpec.
MaxLen == 5

\* The byte values inputs are built from.
Symbols == {0, 1, 255}

Byte == 0 .. 255

\* All byte sequences over Symbols of length at most n.
SeqsUpTo(n) == UNION {[1 .. k -> Symbols] : k \in 0 .. n}

(***************************************************************************)
(* The iguana block codec (package github.com/SnellerInc/sneller/ion/zion/ *)
(* iguana) is an external library: enc.Compress appends the compressed     *)
(* form of one window to a buffer, dec.DecompressTo inverts it or reports  *)
(* an error.  The stand-in below is a real, non-identity codec with the    *)
(* same interface: a mode byte, then the window raw (threshold 0) or       *)
(* run-length coded (threshold 1).                                         *)
(***************************************************************************)
RECURSIVE RunLen(_, _)
\* Length of the run of byte b at the head of s.
RunLen(s, b) ==
  IF Len(s) = 0 \/ Head(s) # b THEN 0 ELSE 1 + RunLen(Tail(s), b)

RECURSIVE RLE(_)
RLE(s) ==
  IF Len(s) = 0 THEN <<>>
  ELSE LET n == RunLen(s, Head(s))
       IN <<n, Head(s)>> \o RLE(SubSeq(s, n + 1, Len(s)))

RECURSIVE UnRLE(_)
UnRLE(s) ==
  IF Len(s) = 0 THEN <<>>
  ELSE [i \in 1 .. s[1] |-> s[2]] \o UnRLE(SubSeq(s, 3, Len(s)))

\* enc.Compress(mem, out, threshold): out with the compressed window appended.
Compress(mem, o, threshold) ==
  IF threshold = 1 THEN o \o <<1>> \o RLE(mem) ELSE o \o <<0>> \o mem

\* dec.DecompressTo(dst[:0], mem): the decompressed window, or an error.
DecompressTo(mem) ==
  IF Len(mem) = 0 THEN [err |-> TRUE, dst |-> <<>>]
  ELSE IF mem[1] = 0 THEN [err |-> FALSE, dst |-> Tail(mem)]
  ELSE IF mem[1] = 1 /\ (Len(mem) - 1) % 2 = 0
            /\ \A i \in 1 .. ((Len(mem) - 1) \div 2) : mem[2 * i] \in 1 .. 255
       THEN [err |-> FALSE, dst |-> UnRLE(Tail(mem))]
  ELSE [err |-> TRUE, dst |-> <<>>]

(***************************************************************************)
(* iguanaCompress: one loop iteration, and the whole function.             *)
(***************************************************************************)
\* threshold := 0.0; if ans { threshold = 1.0 }
Threshold(a) == IF a THEN 1 ELSE 0

\* mem := src; if len(mem) > iguanaWindowSize { mem = mem[:iguanaWindowSize] }
Window(src) ==
  IF Len(src) > iguanaWindowSize THEN SubSeq(src, 1, iguanaWindowSize) ELSE src

WinsizeNoHeader(outlen, lenpos) == outlen - lenpos

\* winsize := len(out) - 3 - lenpos
Winsize(outlen, lenpos) == outlen - 3 - lenpos

PutLenBigEndian(o, lenpos, winsize) ==
  [o EXCEPT ![lenpos + 1] = (winsize \div 65536) % 256,
            ![lenpos + 2] = (winsize \div 256) % 256,
            ![lenpos + 3] = winsize % 256]

\* out[lenpos], out[lenpos+1], out[lenpos+2] = the three low bytes of winsize
PutLen(o, lenpos, winsize) ==
  [o EXCEPT ![lenpos + 1] = winsize % 256,
            ![lenpos + 2] = (winsize \div 256) % 256,
            ![lenpos + 3] = (winsize \div 65536) % 256]

\* The body of the loop `for len(src) > 0`: the rest of src and the new out.
CompressWindow(src, o, threshold) ==
  LET mem == Window(src)
      rest == SubSeq(src, Len(mem) + 1, Len(src))
      lenpos == Len(o)
      o2 == Compress(mem, o \o <<0, 0, 0>>, threshold)
      winsize == Winsize(Len(o2), lenpos)
  IN [src |-> rest, out |-> PutLen(o2, lenpos, winsize)]

RECURSIVE CompressLoop(_, _, _)
CompressLoop(src, o, threshold) ==
  IF Len(src) > 0
  THEN LET r == CompressWindow(src, o, threshold)
       IN CompressLoop(r.src, r.out, threshold)
  ELSE o

iguanaCompress(src, a) == CompressLoop(src, <<>>, Threshold(a))

(***************************************************************************)
(* iguanaDecompress: one loop iteration, and the whole function.           *)
(***************************************************************************)
ReadLenBigEndian(src) == src[1] * 65536 + src[2] * 256 + src[3]

\* winsize := int(src[0]) + (int(src[1]) << 8) + (int(src[2]) << 16)
ReadLen(src) == src[1] + src[2] * 256 + src[3] * 65536

\* if len(src) < winsize { panic("invalid frame") }, src already past the header
InvalidFrame(srclen, winsize) == srclen < winsize

\* The body of the loop `for len(src) >= 4`.
DecompressWindow(src, t) ==
  LET winsize == ReadLen(src)
      s1 == SubSeq(src, 4, Len(src))
  IN IF InvalidFrame(Len(s1), winsize)
     THEN [panic |-> "invalid frame", src |-> s1, tmp |-> t]
     ELSE IF winsize > Len(s1)
     THEN \* src[:winsize] past the end of src: Go's run-time bounds check
          [panic |-> "slice bounds out of range", src |-> s1, tmp |-> t]
     ELSE LET mem == SubSeq(s1, 1, winsize)
              s2 == SubSeq(s1, winsize + 1, Len(s1))
              r == DecompressTo(mem)
          IN IF r.err
             THEN [panic |-> "decompress error", src |-> s2, tmp |-> r.dst]
             ELSE [panic |-> "", src |-> s2, tmp |-> r.dst]

RECURSIVE DecompressLoop(_, _)
DecompressLoop(src, t) ==
  IF Len(src) >= 4
  THEN LET r == DecompressWindow(src, t)
       IN IF r.panic # "" THEN r ELSE DecompressLoop(r.src, r.tmp)
  ELSE [panic |-> "", src |-> src, tmp |-> t]

\* The whole call: how it ends (panic, or "" for a normal return).
iguanaDecompress(src) == DecompressLoop(src, <<>>)

(***************************************************************************)
(* State.                                                                  *)
(***************************************************************************)
VARIABLES
  data,        \* the corpus / the input of iguanaCompress
  ans,         \* iguanaCompress's ans argument
  compressed,  \* the compressed payload
  cpc,         \* CodecSpec: where the codec run is
  csrc,        \* iguanaCompress: src, what is left to compress
  out,         \* iguanaCompress: out
  lenposs,     \* history: the lenpos of every frame written
  cut,         \* how many bytes of the stream iguanaDecompress was given
  dsrc,        \* iguanaDecompress: src, what is left to read
  tmp,         \* iguanaDecompress: tmp, the reused output buffer
  decoded,     \* history: the decompressed windows, concatenated in order
  nframes,     \* history: frames decompressed so far
  perr         \* the panic message, "" while there is none

codecVars == <<ans, cpc, csrc, out, lenposs, cut, dsrc, tmp, decoded, nframes, perr>>

VARIABLES
  hasAVX512,   \* cpu.X86.HasAVX512VBMI2
  pathTools,   \* the tool names an executable of the search path answers to
  rx,          \* main: the compiled -name filter, or nil
  lookName,    \* the variable `name` each lookPath closure captured
  pc,          \* Spec: the statement the program is at
  i,           \* main: the index into compressors (from 1)
  output,      \* standard output, line by line (a result line by its name)
  exitStatus,  \* the process's exit status once it has ended
  now,         \* the clock time.Now() reads
  iters,       \* benchmark: iters
  wrote,       \* benchmark: wrote
  start,       \* benchmark: start
  atleast,     \* benchmark: atleast
  elapsed,     \* benchmark: elapsed
  issuedAt,    \* history: what the clock read at the test that issued the latest call
  firstDur,    \* history: how long the first decompress call of the measurement lasted
  calls,       \* history: c.decompress calls issued in this measurement
  dspawns,     \* history: decompressor processes launched in this measurement
  cspawns,     \* history: compressor processes launched in this measurement
  cmdFailed,   \* history: a subprocess could not be run or exited non-zero
  attempted,   \* history: the backends c.compress was called for
  availFirst,  \* history: each avail closure's first answer
  availLast    \* history: each avail closure's latest answer

envVars == <<hasAVX512, pathTools, rx>>

localVars == <<iters, wrote, start, atleast, elapsed, issuedAt, firstDur,
               calls, dspawns, cspawns>>

runVars == <<envVars, lookName, pc, i, output, exitStatus, now, localVars, cmdFailed,
             attempted, availFirst, availLast>>

vars == <<data, compressed, codecVars, runVars>>

\* The state of Spec while CodecSpec runs.
RunIdle ==
  /\ hasAVX512 = FALSE
  /\ pathTools = {}
  /\ rx = [nil |-> TRUE, set |-> {}]
  /\ lookName = [c \in {"zstdAvail", "lz4Avail"} |-> ""]
  /\ pc = "idle"
  /\ i = 0
  /\ output = <<>>
  /\ exitStatus = 0
  /\ now = 0
  /\ iters = 0 /\ wrote = 0 /\ start = 0 /\ atleast = 0 /\ elapsed = 0
  /\ issuedAt = 0 /\ firstDur = 0
  /\ calls = 0 /\ dspawns = 0 /\ cspawns = 0
  /\ cmdFailed = FALSE
  /\ attempted = {}
  /\ availFirst = [c \in {"avx512_ans", "avx512_noans", "zstdAvail", "lz4Avail"} |-> "none"]
  /\ availLast = availFirst

\* The state of CodecSpec while Spec runs.
CodecIdle ==
  /\ ans = FALSE
  /\ cpc = "idle"
  /\ csrc = <<>>
  /\ out = <<>>
  /\ lenposs = <<>>
  /\ cut = 0
  /\ dsrc = <<>>
  /\ tmp = <<>>
  /\ decoded = <<>>
  /\ nframes = 0
  /\ perr = ""

CodecInit ==
  /\ data \in SeqsUpTo(MaxLen)
  /\ ans \in BOOLEAN
  /\ compressed = <<>>
  /\ cpc = "compress"
  /\ csrc = data
  /\ out = <<>>
  /\ lenposs = <<>>
  /\ cut = 0
  /\ dsrc = <<>>
  /\ tmp = <<>>
  /\ decoded = <<>>
  /\ nframes = 0
  /\ perr = ""
  /\ RunIdle

\* iguanaCompress, one iteration of `for len(src) > 0`.
CompressIter ==
  /\ cpc = "compress"
  /\ Len(csrc) > 0
  /\ LET r == CompressWindow(csrc, out, Threshold(ans))
     IN /\ csrc' = r.src
        /\ out' = r.out
        /\ lenposs' = Append(lenposs, Len(out))
  /\ UNCHANGED <<data, ans, compressed, cpc, cut, dsrc, tmp, decoded, nframes, perr>>
  /\ UNCHANGED runVars

\* iguanaCompress, loop exit and `return out`.
CompressReturn ==
  /\ cpc = "compress"
  /\ Len(csrc) = 0
  /\ compressed' = out
  /\ cpc' = "compressed"
  /\ UNCHANGED <<data, ans, csrc, out, lenposs, cut, dsrc, tmp, decoded, nframes, perr>>
  /\ UNCHANGED runVars

\* iguanaDecompress is entered with the encoder's output as it is.
DecompressCall ==
  /\ cpc = "compressed"
  /\ cut' = Len(compressed)
  /\ dsrc' = compressed
  /\ cpc' = "decompress"
  /\ UNCHANGED <<data, ans, compressed, csrc, out, lenposs, tmp, decoded, nframes, perr>>
  /\ UNCHANGED runVars

\* iguanaDecompress is entered with the encoder's output cut short at byte n.
DecompressCallTruncated ==
  /\ cpc = "compressed"
  /\ \E n \in 0 .. (Len(compressed) - 1) :
       /\ cut' = n
       /\ dsrc' = SubSeq(compressed, 1, n)
  /\ cpc' = "decompress"
  /\ UNCHANGED <<data, ans, compressed, csrc, out, lenposs, tmp, decoded, nframes, perr>>
  /\ UNCHANGED runVars

\* iguanaDecompress, one iteration of `for len(src) >= 4`.
DecompressIter ==
  /\ cpc = "decompress"
  /\ Len(dsrc) >= 4
  /\ LET r == DecompressWindow(dsrc, tmp)
     IN /\ dsrc' = r.src
        /\ tmp' = r.tmp
        /\ perr' = r.panic
        /\ IF r.panic = ""
           THEN /\ decoded' = decoded \o r.tmp
                /\ nframes' = nframes + 1
                /\ cpc' = cpc
           ELSE /\ UNCHANGED <<decoded, nframes>>
                /\ cpc' = "panic"
  /\ UNCHANGED <<data, ans, compressed, csrc, out, lenposs, cut>>
  /\ UNCHANGED runVars

\* iguanaDecompress, loop exit and return.
DecompressReturn ==
  /\ cpc = "decompress"
  /\ Len(dsrc) < 4
  /\ cpc' = "returned"
  /\ UNCHANGED <<data, ans, compressed, csrc, out, lenposs, cut, dsrc, tmp, decoded, nframes, perr>>
  /\ UNCHANGED runVars

CodecNext ==
  \/ CompressIter
  \/ CompressReturn
  \/ DecompressCall
  \/ DecompressCallTruncated
  \/ DecompressIter
  \/ DecompressReturn

CodecSpec == CodecInit /\ [][CodecNext]_vars

(***************************************************************************)
(* The benchmark driver: the compressors table, main and benchmark.        *)
(***************************************************************************)
\* for ... time.Now().Before(atleast): the window is 3 * time.Second; the
\* clock of the model counts seconds.
MeasureWindow == 3

\* How far past the deadline the model lets the clock of one measurement run.
MaxOvershoot == 1

\* The most iterations of the measurement loop the model follows.
MaxIters == 2

\* The corpora of Spec (main's buf): the empty file and a file of three bytes.
Corpora == {<<>>, <<1, 255, 1>>}

\* var compressors = []compressor{...}: kind tells the in-process closures
\* (iguanaCompress / iguanaDecompress) from the compressCmdline /
\* decompressCmdline ones, avail names the probe closure.
compressors ==
  << [name |-> "iguana_avx512_ans", avail |-> "avx512_ans", kind |-> "iguana",
      ans |-> TRUE, tool |-> ""],
     [name |-> "iguana_avx512_noans", avail |-> "avx512_noans", kind |-> "iguana",
      ans |-> FALSE, tool |-> ""],
     [name |-> "zstd-9", avail |-> "zstdAvail", kind |-> "cmdline",
      ans |-> FALSE, tool |-> "zstd"],
     [name |-> "zstd-1", avail |-> "zstdAvail", kind |-> "cmdline",
      ans |-> FALSE, tool |-> "zstd"],
     [name |-> "zstd-18", avail |-> "zstdAvail", kind |-> "cmdline",
      ans |-> FALSE, tool |-> "zstd"],
     [name |-> "lz4-1", avail |-> "lz4Avail", kind |-> "cmdline",
      ans |-> FALSE, tool |-> "lz4"],
     [name |-> "lz4-9", avail |-> "lz4Avail", kind |-> "cmdline",
      ans |-> FALSE, tool |-> "lz4"] >>

NBackends == Len(compressors)

Names == {compressors[k].name : k \in 1 .. NBackends}

Tools == {"zstd", "lz4"}

\* fmt.Println("name, ratio, decompression speed (GiB/s)")
HeaderLine == "name, ratio, decompression speed (GiB/s)"

\* The file a tool of the search path resolves to.
PathOf(tool) == IF tool = "zstd" THEN "/usr/bin/zstd" ELSE "/usr/bin/lz4"

HasSlash(file) == file \in {PathOf(t) : t \in Tools}

LookPathSearchOnly(file, tools) == IF file \in tools THEN PathOf(file) ELSE ""

\* exec.LookPath(file), its error dropped: a name with a slash is tried as it
\* is, any other is searched for in the directories of the path; "" when no
\* executable is found.
LookPath(file, tools) ==
  IF HasSlash(file)
  THEN IF file \in {PathOf(t) : t \in tools} THEN file ELSE ""
  ELSE IF file \in tools THEN PathOf(file) ELSE ""

\* lookPath's closure: name, _ = exec.LookPath(name); return name != ""
\* (the captured name after the call, and the answer).
lookPath(name, tools) ==
  LET found == LookPath(name, tools)
  IN [name |-> found, avail |-> found # ""]

SelectedInverted(r, name) == ~(~r.nil /\ name \in r.set)

\* main: `if rx != nil && !rx.MatchString(name) { continue }`, negated.
Selected(r, name) == ~(~r.nil /\ name \notin r.set)

\* compressCmdline's subprocess: the tool's own format, a magic number and
\* the payload (the tools are external programs; this stands for their output).
ToolCompress(tool, src) ==
  IF tool = "zstd" THEN <<40, 181, 47, 253>> \o src ELSE <<4, 34, 77, 24>> \o src

LoopCondNoFirst(n, t, deadline) == t < deadline

LoopCondNotAfter(n, t, deadline) == n = 0 \/ t <= deadline

\* benchmark: `iters == 0 || time.Now().Before(atleast)`
LoopCond(n, t, deadline) == n = 0 \/ t < deadline

WroteNextCompressed(w, datalen, complen) == w + complen

\* benchmark: `wrote += len(data)`
WroteNext(w, datalen, complen) == w + datalen

LaunchesOnce(kind, ncalls) == IF kind = "cmdline" /\ ncalls = 0 THEN 1 ELSE 0

\* The processes one c.decompress call launches: decompressCmdline's closure
\* runs exec.Command(...).Run() on every call, iguanaDecompress runs none.
Launches(kind, ncalls) == IF kind = "cmdline" THEN 1 ELSE 0

CmdErrorIgnored(err) == "ok"

\* compressCmdline / decompressCmdline: `if err != nil { fatalf(...) }`
CmdError(err) == IF err THEN "fatal" ELSE "ok"

Init ==
  /\ data \in Corpora
  /\ compressed = <<>>
  /\ CodecIdle
  /\ hasAVX512 \in BOOLEAN
  /\ pathTools \in SUBSET Tools
  /\ rx \in {[nil |-> TRUE, set |-> {}]} \cup {[nil |-> FALSE, set |-> m] : m \in SUBSET Names}
  /\ lookName = [c \in {"zstdAvail", "lz4Avail"} |-> IF c = "zstdAvail" THEN "zstd" ELSE "lz4"]
  /\ pc = "header"
  /\ i = 1
  /\ output = <<>>
  /\ exitStatus = 0
  /\ now = 0
  /\ iters = 0 /\ wrote = 0 /\ start = 0 /\ atleast = 0 /\ elapsed = 0
  /\ issuedAt = 0 /\ firstDur = 0
  /\ calls = 0 /\ dspawns = 0 /\ cspawns = 0
  /\ cmdFailed = FALSE
  /\ attempted = {}
  /\ availFirst = [c \in {"avx512_ans", "avx512_noans", "zstdAvail", "lz4Avail"} |-> "none"]
  /\ availLast = availFirst

\* The locals of benchmark as a call of it finds them.
FreshLocals ==
  /\ iters' = 0 /\ wrote' = 0 /\ start' = 0 /\ atleast' = 0 /\ elapsed' = 0
  /\ issuedAt' = 0 /\ firstDur' = 0
  /\ calls' = 0 /\ dspawns' = 0 /\ cspawns' = 0
  /\ compressed' = <<>>

\* fatalf: the message goes to standard error, then os.Exit(1).
fatalf ==
  /\ pc' = "fatal"
  /\ exitStatus' = 1

\* A panic that nothing recovers: the Go run time ends the process with 2.
panic ==
  /\ pc' = "panic"
  /\ exitStatus' = 2

\* main: fmt.Println of the header line.
PrintHeader ==
  /\ pc = "header"
  /\ output' = Append(output, HeaderLine)
  /\ pc' = "main"
  /\ UNCHANGED <<data, compressed, codecVars, envVars, lookName, i, exitStatus, now,
                 localVars, cmdFailed, attempted, availFirst, availLast>>

\* main: a compressor the -name filter does not select is passed over.
MainSkip ==
  /\ pc = "main"
  /\ i <= NBackends
  /\ ~Selected(rx, compressors[i].name)
  /\ i' = i + 1
  /\ UNCHANGED <<data, compressed, codecVars, envVars, lookName, pc, output, exitStatus,
                 now, localVars, cmdFailed, attempted, availFirst, availLast>>

\* main: benchmark(&compressors[i], buf) is called.
MainCall ==
  /\ pc = "main"
  /\ i <= NBackends
  /\ Selected(rx, compressors[i].name)
  /\ pc' = "avail"
  /\ UNCHANGED <<data, compressed, codecVars, envVars, lookName, i, output, exitStatus,
                 now, localVars, cmdFailed, attempted, availFirst, availLast>>

\* main: the loop is over and main returns.
MainReturn ==
  /\ pc = "main"
  /\ i > NBackends
  /\ pc' = "done"
  /\ exitStatus' = 0
  /\ UNCHANGED <<data, compressed, codecVars, envVars, lookName, i, output, now,
                 localVars, cmdFailed, attempted, availFirst, availLast>>

\* benchmark: `if !c.avail() { logf(...); return }`
BenchmarkAvail ==
  /\ pc = "avail"
  /\ LET c == compressors[i]
         r == IF c.kind = "iguana"
              THEN [name |-> "", avail |-> hasAVX512]
              ELSE lookPath(lookName[c.avail], pathTools)
         answer == IF r.avail THEN "true" ELSE "false"
     IN /\ lookName' = IF c.kind = "iguana" THEN lookName
                       ELSE [lookName EXCEPT ![c.avail] = r.name]
        /\ availFirst' = IF availFirst[c.avail] = "none"
                         THEN [availFirst EXCEPT ![c.avail] = answer]
                         ELSE availFirst
        /\ availLast' = [availLast EXCEPT ![c.avail] = answer]
        /\ IF r.avail
           THEN /\ pc' = "compress"
                /\ i' = i
           ELSE /\ pc' = "main"
                /\ i' = i + 1
  /\ UNCHANGED <<data, compressed, codecVars, envVars, output, exitStatus, now,
                 localVars, cmdFailed, attempted>>

\* benchmark: compressed := c.compress(data)
BenchmarkCompress ==
  /\ pc = "compress"
  /\ attempted' = attempted \cup {i}
  /\ LET c == compressors[i]
     IN IF c.kind = "iguana"
        THEN /\ compressed' = iguanaCompress(data, c.ans)
             /\ pc' = "start"
             /\ UNCHANGED <<cspawns, cmdFailed, exitStatus>>
        ELSE \E err \in BOOLEAN :
               /\ cspawns' = cspawns + 1
               /\ cmdFailed' = err
               /\ IF CmdError(err) = "fatal"
                  THEN /\ fatalf
                       /\ UNCHANGED compressed
                  ELSE /\ compressed' = ToolCompress(c.tool, data)
                       /\ pc' = "start"
                       /\ UNCHANGED exitStatus
  /\ UNCHANGED <<data, codecVars, envVars, lookName, i, output, now, iters, wrote, start,
                 atleast, elapsed, issuedAt, firstDur, calls, dspawns,
                 availFirst, availLast>>

\* benchmark: iters := 0; wrote := 0; start := time.Now(); atleast := start.Add(3s)
BenchmarkStart ==
  /\ pc = "start"
  /\ iters' = 0
  /\ wrote' = 0
  /\ start' = now
  /\ atleast' = now + MeasureWindow
  /\ pc' = "check"
  /\ UNCHANGED <<data, compressed, codecVars, envVars, lookName, i, output, exitStatus,
                 now, elapsed, issuedAt, firstDur, calls, dspawns, cspawns,
                 cmdFailed, attempted, availFirst, availLast>>

\* benchmark: the loop test; the call of c.decompress is issued when it holds.
LoopCheck ==
  /\ pc = "check"
  /\ IF LoopCond(iters, now, atleast)
     THEN /\ iters < MaxIters
          /\ pc' = "call"
          /\ issuedAt' = now
          /\ calls' = calls + 1
     ELSE /\ pc' = "since"
          /\ UNCHANGED <<issuedAt, calls>>
  /\ UNCHANGED <<data, compressed, codecVars, envVars, lookName, i, output, exitStatus,
                 now, iters, wrote, start, atleast, elapsed, firstDur, dspawns, cspawns,
                 cmdFailed, attempted, availFirst, availLast>>

\* benchmark: c.decompress(compressed) returns (or ends the process), then
\* wrote += len(data); iters++
DecompressDone ==
  /\ pc = "call"
  /\ LET c == compressors[i]
         counted == /\ wrote' = WroteNext(wrote, Len(data), Len(compressed))
                    /\ iters' = iters + 1
                    /\ firstDur' = IF iters = 0 THEN now - issuedAt ELSE firstDur
                    /\ pc' = "check"
                    /\ UNCHANGED exitStatus
     IN /\ dspawns' = dspawns + Launches(c.kind, calls - 1)
        /\ IF c.kind = "iguana"
           THEN /\ UNCHANGED cmdFailed
                /\ IF iguanaDecompress(compressed).panic = ""
                   THEN counted
                   ELSE /\ panic
                        /\ UNCHANGED <<wrote, iters, firstDur>>
           ELSE \E err \in BOOLEAN :
                  /\ cmdFailed' = err
                  /\ IF CmdError(err) = "fatal"
                     THEN /\ fatalf
                          /\ UNCHANGED <<wrote, iters, firstDur>>
                     ELSE counted
  /\ UNCHANGED <<data, compressed, codecVars, envVars, lookName, i, output, now, start,
                 atleast, elapsed, issuedAt, calls, cspawns, attempted,
                 availFirst, availLast>>

\* benchmark: elapsed := time.Since(start)
TimeSince ==
  /\ pc = "since"
  /\ elapsed' = now - start
  /\ pc' = "print"
  /\ UNCHANGED <<data, compressed, codecVars, envVars, lookName, i, output, exitStatus,
                 now, iters, wrote, start, atleast, issuedAt, firstDur, calls,
                 dspawns, cspawns, cmdFailed, attempted, availFirst, availLast>>

\* benchmark: ratio and gibps are computed from len(compressed), len(data),
\* wrote and elapsed, the result line is printed, and benchmark returns.
PrintResult ==
  /\ pc = "print"
  /\ output' = Append(output, compressors[i].name)
  /\ pc' = "main"
  /\ i' = i + 1
  /\ FreshLocals
  /\ UNCHANGED <<data, codecVars, envVars, lookName, exitStatus, now, cmdFailed,
                 attempted, availFirst, availLast>>

\* The clock moves on, whatever the program is doing. Only a measurement
\* reads it, so the model lets it move only there.
Tick ==
  /\ pc \in {"check", "call", "since"}
  /\ now - start < MeasureWindow + MaxOvershoot
  /\ now' = now + 1
  /\ UNCHANGED <<data, compressed, codecVars, envVars, lookName, pc, i, output,
                 exitStatus, localVars, cmdFailed, attempted, availFirst, availLast>>

Program ==
  \/ PrintHeader
  \/ MainSkip
  \/ MainCall
  \/ MainReturn
  \/ BenchmarkAvail
  \/ BenchmarkCompress
  \/ BenchmarkStart
  \/ LoopCheck
  \/ DecompressDone
  \/ TimeSince
  \/ PrintResult

Next == Program \/ Tick

Spec == Init /\ [][Next]_vars

\* The most compressors the -name filter selects in the runs of FairSpec.
MaxSelected == 1

\* The runs whose -name filter selects at most MaxSelected compressors.
FairInit == Init /\ ~rx.nil /\ Cardinality(rx.set) <= MaxSelected

\* The clock never stops, and the one thread of the program runs on.
FairSpec == FairInit /\ [][Next]_vars /\ WF_vars(Tick) /\ WF_vars(Program)

(***************************************************************************)
(* Claims about the frame codec, checked under CodecSpec.                  *)
(***************************************************************************)
\* iguanaDecompress has been entered, and with the whole stream.
Decoding == cpc \in {"decompress", "returned", "panic"}

Uncut == Decoding /\ cut = Len(compressed)

\* Where frame k of the stream ends (one past its last byte, as an offset).
FrameEnd(k) == IF k < Len(lenposs) THEN lenposs[k + 1] ELSE Len(compressed)

\* The input bytes frame k was made from, and the input before frame k.
InputWindow(k) ==
  SubSeq(data, (k - 1) * iguanaWindowSize + 1,
         IF k * iguanaWindowSize < Len(data) THEN k * iguanaWindowSize ELSE Len(data))

InputBefore(k) == SubSeq(data, 1, (k - 1) * iguanaWindowSize)

\* The stream was cut strictly inside frame k.
CutInside(k) == Decoding /\ lenposs[k] < cut /\ cut < FrameEnd(k)

TruncatedStreamBehaviour ==
  \A k \in 1 .. Len(lenposs) :
    CutInside(k) =>
      IF cut - lenposs[k] >= 4
      THEN /\ cpc # "returned"
           /\ cpc = "panic" => (perr = "invalid frame" /\ nframes = k - 1)
           /\ nframes <= k - 1
      ELSE /\ cpc # "panic"
           /\ cpc = "returned" =>
                /\ nframes = k - 1
                /\ decoded = InputBefore(k)
                /\ Len(dsrc) = cut - lenposs[k]

\* C2: a stream produced by iguanaCompress and cut anywhere strictly inside
\* a frame (after some or all of the frame's length header, before the last
\* byte of its compressed window) makes iguanaDecompress fail; it never
\* returns normally having decoded only the frames before the cut.
C2_TruncationAlwaysFails ==
  \A k \in 1 .. Len(lenposs) : CutInside(k) => cpc # "returned"

\* The frames of stream s start at the recorded offsets, and each declared
\* length is the number of bytes up to the next frame.
FramesConsistent(s, starts) ==
  /\ (Len(starts) = 0) = (Len(s) = 0)
  /\ Len(starts) > 0 => starts[1] = 0
  /\ \A k \in 1 .. Len(starts) :
       LET end == IF k < Len(starts) THEN starts[k + 1] ELSE Len(s)
       IN /\ starts[k] + 3 <= end
          /\ ReadLen(SubSeq(s, starts[k] + 1, starts[k] + 3)) = end - (starts[k] + 3)

\* C3: at every point of iguanaCompress the output so far is a concatenation
\* of frames whose 3-byte little-endian length is the number of compressed
\* bytes that follow; the finished stream has one frame per window of at most
\* iguanaWindowSize input bytes; and iguanaDecompress, reading frame after
\* frame, consumes the stream exactly, with no byte left.
C3_FramesSelfConsistent ==
  /\ FramesConsistent(out, lenposs)
  /\ \A n \in 1 .. Len(out) : out[n] \in Byte
  /\ cpc # "compress" =>
       /\ compressed = out
       /\ Len(lenposs) * iguanaWindowSize >= Len(data)
       /\ (Len(lenposs) - 1) * iguanaWindowSize < Len(data) \/ Len(lenposs) = 0
       /\ \A k \in 1 .. Len(lenposs) :
            LET w == DecompressTo(SubSeq(compressed, lenposs[k] + 4, FrameEnd(k)))
            IN ~w.err /\ Len(w.dst) <= iguanaWindowSize /\ Len(w.dst) >= 1
  /\ (Uncut /\ cpc = "returned") => (Len(dsrc) = 0 /\ nframes = Len(lenposs))
  /\ (Uncut /\ cpc = "decompress") =>
       /\ nframes <= Len(lenposs)
       /\ dsrc = SubSeq(compressed,
                        (IF nframes = 0 THEN 0 ELSE FrameEnd(nframes)) + 1,
                        Len(compressed))

\* A stream of three frames has been read to its end.
C3_Witness ==
  /\ Uncut /\ cpc = "returned"
  /\ Len(lenposs) = 3
  /\ nframes = 3
  /\ Len(dsrc) = 0

(***************************************************************************)
(* Claims about the benchmark driver, checked under Spec (C4: FairSpec).   *)
(***************************************************************************)
\* benchmark is between its loop's first test and its return.
Measuring == pc \in {"check", "call", "since", "print"}

\* main or benchmark is running (the process has not ended).
Running == pc \in {"main", "avail", "compress", "start", "check", "call", "since", "print"}

\* What the environment says of compressor k: the filter matches its name,
\* and its probe has something to find.
Matched(k) == rx.nil \/ compressors[k].name \in rx.set

Available(k) ==
  IF compressors[k].kind = "iguana" THEN hasAVX512 ELSE compressors[k].tool \in pathTools

RECURSIVE LinesUpTo(_)
\* The result lines of compressors 1 .. n, in the order of the table.
LinesUpTo(n) ==
  IF n = 0 THEN <<>>
  ELSE LinesUpTo(n - 1)
         \o (IF Matched(n) /\ Available(n) THEN <<compressors[n].name>> ELSE <<>>)

\* C4: the measurement loop always comes to an end (its exit, or the end of
\* the process), it never exits with iters = 0 whatever the clock read at its
\* tests, and when the first decompress call alone outlasts the window the
\* loop exits with iters = 1 and the elapsed time covers that call.
C4_AtLeastOneIteration ==
  /\ [](pc \in {"since", "print"} => iters >= 1)
  /\ []((pc \in {"since", "print"} /\ firstDur > MeasureWindow) => iters = 1)
  /\ []((pc = "print" /\ firstDur > MeasureWindow) => elapsed >= firstDur)
  /\ [](pc \in {"check", "call"} => <>(pc \in {"since", "fatal", "panic"}))

\* The first call outlasted the window and the loop exited after it.
C4_Witness ==
  /\ pc = "print"
  /\ firstDur > MeasureWindow
  /\ iters = 1
  /\ elapsed >= firstDur

C6_AvailabilitySkip ==
  /\ Running => (i \in 1 .. NBackends + 1 /\ output = <<HeaderLine>> \o LinesUpTo(i - 1))
  /\ pc = "done" => output = <<HeaderLine>> \o LinesUpTo(NBackends)
  /\ \A k \in attempted : Matched(k) /\ Available(k)
  /\ pc \in {"compress", "start", "check", "call", "since", "print"} =>
       (Matched(i) /\ Available(i))
  /\ (pc \in {"start", "check", "call", "since", "print"} \/ calls > 0) => i \in attempted

\* The run is over; the iguana compressors were unavailable and skipped, the
\* zstd ones after them were benchmarked.
C6_Witness ==
  /\ pc = "done"
  /\ rx.nil
  /\ ~hasAVX512
  /\ pathTools = {"zstd"}
  /\ output = <<HeaderLine, "zstd-9", "zstd-1", "zstd-18">>

\* C7: a subprocess that cannot be run or exits non-zero while compressor i
\* is benchmarked ends the process at once with status 1: compressor i gets
\* no line, the lines printed before stay, no later compressor is attempted,
\* the failed command was launched once and not again, and nothing follows.
C7_ToolFailureFatal ==
  /\ cmdFailed => pc = "fatal"
  /\ pc = "fatal" =>
       /\ cmdFailed
       /\ exitStatus = 1
       /\ compressors[i].kind = "cmdline"
       /\ output = <<HeaderLine>> \o LinesUpTo(i - 1)
       /\ i \in attempted
       /\ \A k \in attempted : k <= i
       /\ cspawns = 1
       /\ dspawns = calls
       /\ calls > 0 => iters = calls - 1
       /\ ~ENABLED Next

\* The second decompress run of a tool failed after an earlier compressor's
\* line had been printed.
C7_Witness ==
  /\ pc = "fatal"
  /\ Len(output) >= 2
  /\ calls = 2
  /\ iters = 1

\* C8: every avail closure answers the same at every call of one run, also
\* the lookPath closures that several compressors share and that overwrite
\* the name they captured; the answer for a tool that is not on the search
\* path is false, and a probe never ends the process.
C8_AvailIdempotent ==
  /\ \A c \in DOMAIN availFirst :
       availFirst[c] # "none" => availLast[c] = availFirst[c]
  /\ \A k \in 1 .. NBackends :
       availFirst[compressors[k].avail] # "none" =>
         (availFirst[compressors[k].avail] = "true") = Available(k)
  /\ pc \in {"fatal", "panic"} => i \in attempted

\* zstdAvail has answered for zstd-9 and again, with the path it stored in
\* place of the name, for zstd-1.
C8_Witness ==
  /\ pc = "compress"
  /\ compressors[i].name = "zstd-1"
  /\ Len(output) >= 2 /\ output[Len(output)] = "zstd-9"
  /\ lookName["zstdAvail"] = "/usr/bin/zstd"
  /\ availLast["zstdAvail"] = "true"

\* C9 (as amended): the deadline start + 3 s is tested only between
\* iterations; every decompress call but the first is issued only at a test
\* that read a time before the deadline, and the first is issued whatever
\* the clock reads; the loop exits at the first test at or after the
\* deadline, so that past the first iteration it overshoots the deadline by
\* no more than the call that was in flight.
C9_DeadlineCutoff ==
  /\ Measuring => atleast = start + MeasureWindow
  /\ (pc = "call" /\ iters > 0) => issuedAt < atleast
  /\ pc = "call" => (issuedAt >= start /\ issuedAt <= now)
  /\ pc \in {"since", "print"} =>
       /\ now >= atleast
       /\ iters > 1 => issuedAt < atleast

\* C9 as stated: a decompress call is issued only while the time precedes
\* the deadline.
C9_NoCallPastDeadline == pc = "call" => issuedAt < atleast

\* The second call was issued before the deadline and returned after it.
C9_Witness ==
  /\ pc = "since"
  /\ iters = 2
  /\ issuedAt < atleast
  /\ now > atleast

\* C10: iters starts at 0, never decreases within a measurement and grows by
\* one exactly when a decompress call returns without failing; between
\* iterations and at report time wrote = iters * len(data); the corpus never
\* changes and the compressed payload does not change during the loop.
C10_IterationAccounting ==
  /\ [](pc \in {"check", "since", "print"} => (iters = calls /\ wrote = iters * Len(data)))
  /\ [](pc = "call" => (iters = calls - 1 /\ wrote = iters * Len(data)))
  /\ []((pc \in {"fatal", "panic"} /\ calls > 0) => iters = calls - 1)
  /\ [][/\ data' = data
        /\ (pc \in {"check", "call", "since"}) =>
             /\ compressed' = compressed
             /\ iters' \in {iters, iters + 1}
             /\ iters' = iters + 1 => (pc = "call" /\ pc' = "check" /\ ~cmdFailed')
             /\ (pc = "call" /\ pc' = "check") => iters' = iters + 1]_vars

\* Two iterations over a non-empty corpus are reported.
C10_Witness ==
  /\ pc = "print"
  /\ Len(data) > 0
  /\ iters = 2
  /\ wrote = 2 * Len(data)

====
